---- MODULE Spec2Model ----
(***************************************************************************)
(* Model of the VTFView main window (src/gui/viewer.cpp): the document     *)
(* controller (ViewerMainWindow), the settings panel (ImageSettingsWidget) *)
(* and the image canvas (ImageViewWidget), with the codec's objects kept   *)
(* in a small heap of VTF handles.                                         *)
(*                                                                         *)
(* Strings (window title, paths) are sequences of one-character strings.   *)
(* A handle is a heap index; 0 is the null pointer.                        *)
(***************************************************************************)
EXTENDS Integers, Sequences, FiniteSets, TLC

\* ------------------------------------------------------------------ bounds
\* Heap cells available for CVTFFile objects (leaked objects keep theirs).
MaxHandles == 2
\* Largest frame count / start frame a parsed header carries in the model.
MaxFrames == 2
\* Largest value the user types into a spin box in the model.
MaxSpin == 2
\* Number of entries of TEXTURE_FLAGS that are modelled.
NumFlags == 1
\* Addresses malloc can hand out for the canvas's pixel buffer.
MaxBuffers == 2
\* Longest run of consecutive mark_modified calls that is counted.
MaxMarks == 2

\* -------------------------------------------------------- program constants
\* QSpinBox's range before the first setRange (Qt's default 0..99).
SpinDefaultMin == 0
SpinDefaultMax == 99
\* The sentinel ImageViewWidget::set_vtf stores in the cache key.
NoSelection == -1

NULL == 0
Handles == 1..MaxHandles
Flags == 1..NumFlags
Buffers == 1..MaxBuffers

\* ----------------------------------------------------------------- strings
TitleBase == <<"V", "T", "F", "V", "i", "e", "w">>
TitlePrefix == TitleBase \o <<" ", "-", " ", "[">>
TitleSuffix == <<"]">>
Star == "*"
EmptyStr == <<>>

\* The paths handed to load_file(const char*) and typed into the save-as box.
LoadPaths == { <<"d", "/", "b">> }
SaveAsNames == { EmptyStr, <<"c">> }

\* QString::endsWith("*")
EndsWithStar(s) == Len(s) > 0 /\ s[Len(s)] = Star

\* QString::remove(length-1, 1): removes the last character, whatever it is.
RemoveLast(s) == IF Len(s) = 0 THEN s ELSE SubSeq(s, 1, Len(s) - 1)

RECURSIVE LastSlash(_, _)
LastSlash(p, i) == IF i = 0 THEN 0 ELSE IF p[i] = "/" THEN i ELSE LastSlash(p, i - 1)

\* str::get_filename: the part of the path after its last separator.
get_filename(p) == SubSeq(p, LastSlash(p, Len(p)) + 1, Len(p))

\* fmt::format("VTFView - [{}]", get_filename(path))
FormatTitle(p) == TitlePrefix \o get_filename(p) \o TitleSuffix

\* ------------------------------------------------------------- the codec
\* What CVTFFile::Load can parse out of a buffer.
Headers == [startFrame : 0..MaxFrames, frames : 1..MaxFrames, mips : {1},
            faces : {1}, flags : SUBSET Flags]

\* The header of a CVTFFile that has loaded nothing.
NoHeader == [startFrame |-> 0, frames |-> 1, mips |-> 1, faces |-> 1, flags |-> {}]

FreeCell == [st |-> "free", startFrame |-> 0, frames |-> 1, mips |-> 1,
             faces |-> 1, flags |-> {}]

LiveCell(h) == [st |-> "live", startFrame |-> h.startFrame, frames |-> h.frames,
                mips |-> h.mips, faces |-> h.faces, flags |-> h.flags]

\* operator new: a cell that holds no live object (a freed cell may be reused).
CanAlloc(heap) == \E h \in Handles : heap[h].st = "free"
NewHandle(heap) == CHOOSE h \in Handles : heap[h].st = "free"
                                          /\ \A g \in Handles : heap[g].st = "free" => h <= g

\* An accessor of a CVTFFile*: the object's field, or, through a null pointer,
\* whatever the build reads there (garbage g).
Get(w, file, field, g) == IF file = NULL THEN g[field] ELSE w.heap[file][field]

\* F applied to the value of x (x is evaluated once, then F's result).
Bind(x, F(_)) == CHOOSE r \in {F(v) : v \in {x}} : TRUE

Min(a, b) == IF a < b THEN a ELSE b
Max(a, b) == IF a > b THEN a ELSE b


\* ------------------------------------------------------------------ state
VARIABLES
    \* ViewerMainWindow
    file_, path_, dirty_, windowTitle,
    \* the heap of CVTFFile objects
    heap,
    \* ImageSettingsWidget
    settings_file_, settingFile_, frameSpin, mipSpin, faceSpin, startFrameSpin,
    flagChecks_,
    \* ImageViewWidget
    view_file_, frame_, face_, mip_, currentFrame_, currentFace_, currentMip_,
    zoom_, pos_,
    \* ImageViewWidget's pixel buffer (an address, 0 when there is none), the
    \* QImage built on it, and the memory malloc manages
    imgBuf_, image_, pixels,
    \* the process: "running", "closed" (close event accepted), "crashed"
    status,
    \* history: the last operation with what it published, asked and returned
    lastOp,
    \* history: a user flag/startFrame edit happened since the last successful
    \* save or load
    edited,
    \* history: the (document, frame, face, mip) of the last successful
    \* conversion since a document was published; <<>> when there is none
    decoded

vars == <<file_, path_, dirty_, windowTitle, heap, settings_file_, settingFile_,
          frameSpin, mipSpin, faceSpin, startFrameSpin, flagChecks_, view_file_,
          frame_, face_, mip_, currentFrame_, currentFace_, currentMip_, zoom_,
          pos_, imgBuf_, image_, pixels, status, lastOp, edited, decoded>>

\* The program state as one record, so that a handler is a function on it.  The
\* last fields collect what the running operation does: the documents it
\* publishes, the fileModified signals emitted, the codec saves, the dialogs
\* shown, its return value, whether the close event was ignored, the calls of
\* save(), the calls of CVTFFile::Convert and what drawImage read.
W == [file_ |-> file_, path_ |-> path_, dirty_ |-> dirty_, windowTitle |-> windowTitle,
      heap |-> heap, settings_file_ |-> settings_file_, settingFile_ |-> settingFile_,
      frameSpin |-> frameSpin, mipSpin |-> mipSpin, faceSpin |-> faceSpin,
      startFrameSpin |-> startFrameSpin, flagChecks_ |-> flagChecks_,
      view_file_ |-> view_file_, frame_ |-> frame_, face_ |-> face_, mip_ |-> mip_,
      currentFrame_ |-> currentFrame_, currentFace_ |-> currentFace_,
      currentMip_ |-> currentMip_, zoom_ |-> zoom_, pos_ |-> pos_,
      imgBuf_ |-> imgBuf_, image_ |-> image_, pixels |-> pixels, status |-> status,
      pubs |-> <<>>, mods |-> 0, saves |-> <<>>, dialogs |-> <<>>, ret |-> TRUE,
      ignored |-> FALSE, saveCalls |-> 0, converts |-> <<>>, drawn |-> "none"]

\* An object that no pointer refers to any more (a leak) can be neither read nor
\* written: its cell stays taken and its content is dropped from the state.
Leaked == [st |-> "leaked", startFrame |-> 0, frames |-> 1, mips |-> 1,
           faces |-> 1, flags |-> {}]

Referenced(w) == {w.file_, w.settings_file_, w.view_file_}

Commit(w) ==
    /\ file_' = w.file_
    /\ path_' = w.path_
    /\ dirty_' = w.dirty_
    /\ windowTitle' = w.windowTitle
    /\ heap' = [h \in Handles |->
                   IF w.heap[h].st # "free" /\ h \notin Referenced(w) THEN Leaked
                   ELSE w.heap[h]]
    /\ settings_file_' = w.settings_file_
    /\ settingFile_' = w.settingFile_
    /\ frameSpin' = w.frameSpin
    /\ mipSpin' = w.mipSpin
    /\ faceSpin' = w.faceSpin
    /\ startFrameSpin' = w.startFrameSpin
    /\ flagChecks_' = w.flagChecks_
    /\ view_file_' = w.view_file_
    /\ frame_' = w.frame_
    /\ face_' = w.face_
    /\ mip_' = w.mip_
    /\ currentFrame_' = w.currentFrame_
    /\ currentFace_' = w.currentFace_
    /\ currentMip_' = w.currentMip_
    /\ zoom_' = w.zoom_
    /\ pos_' = w.pos_
    /\ imgBuf_' = w.imgBuf_
    /\ image_' = w.image_
    /\ pixels' = w.pixels
    /\ status' = w.status
    /\ decoded' = IF w.pubs # <<>> THEN <<>>
                  ELSE IF w.converts # <<>> /\ w.converts[Len(w.converts)].ok
                       THEN w.converts[Len(w.converts)].key
                  ELSE decoded

\* What an operation leaves in lastOp; marks counts the mark_modified calls
\* made in a row, hdr is the header a load's codec parsed.
Record(op, arg, w, marks) ==
    [op |-> op, arg |-> arg, pubs |-> w.pubs, mods |-> w.mods,
     saves |-> w.saves, dialogs |-> w.dialogs, ret |-> w.ret,
     ignored |-> w.ignored, saveCalls |-> w.saveCalls,
     converts |-> w.converts, drawn |-> w.drawn, marks |-> marks, hdr |-> NoHeader]

Done(op, arg, w) ==
    Record(op, arg, w, IF w.mods = 0 THEN 0 ELSE Min(lastOp.marks + w.mods, MaxMarks))

\* A null pointer was dereferenced: the process dies there, or the build reads
\* garbage and goes on.
UBOutcomes == {"crash", "survive"}
Crash(w) == [w EXCEPT !.status = "crashed"]

\* -------------------------------------------------------- ViewerMainWindow
\* mark_modified with a fault: the "*" is appended whatever the title ends in.
mark_modified_appends(w) ==
    [w EXCEPT !.dirty_ = TRUE, !.windowTitle = Append(w.windowTitle, Star)]

mark_modified(w) ==
    LET w1 == [w EXCEPT !.dirty_ = TRUE]
    IN  IF EndsWithStar(w1.windowTitle) THEN w1
        ELSE [w1 EXCEPT !.windowTitle = Append(w1.windowTitle, Star)]

\* emit fileModified(): connected to ViewerMainWindow::mark_modified
emit_fileModified(w) == mark_modified([w EXCEPT !.mods = @ + 1])

\* ------------------------------------------------------- ImageViewWidget
set_frame(w, v) == [w EXCEPT !.frame_ = v]
set_mip(w, v) == [w EXCEPT !.mip_ = v]
set_face(w, v) == [w EXCEPT !.face_ = v]

view_set_vtf(w, file) ==
    [w EXCEPT !.view_file_ = file,
              !.currentFrame_ = NoSelection,
              !.currentFace_ = NoSelection,
              !.currentMip_ = NoSelection,
              !.zoom_ = 1,
              !.pos_ = <<0, 0>>]

\* malloc's memory: a block is free or live; px is what Convert wrote into it,
\* <<>> while its content is indeterminate.
FreeBuf == [st |-> "free", px |-> <<>>]
LiveBuf == [st |-> "live", px |-> <<>>]
\* QImage(): the null image; QImage(data, ...) borrows data.
NullImage == [data |-> NULL]

\* paintEvent: "Needs decode"
needs_decode(w) ==
    w.frame_ # w.currentFrame_ \/ w.mip_ # w.currentMip_ \/ w.face_ # w.currentFace_

\* if (imgBuf_) free(imgBuf_);  imgBuf_ = malloc(size): nb is the address
\* malloc returns (the allocation is taken to succeed).
realloc_imgBuf(w, nb) ==
    LET w1 == IF w.imgBuf_ # NULL THEN [w EXCEPT !.pixels[w.imgBuf_] = FreeBuf] ELSE w
    IN  [w1 EXCEPT !.imgBuf_ = nb, !.pixels[nb] = LiveBuf]

\* CVTFFile::Convert(file_->GetData(frame_, face_, 0, mip_), imgBuf_, ...)
Convert(w, ok) ==
    LET key == <<w.view_file_, w.frame_, w.face_, w.mip_>>
    IN  [w EXCEPT !.converts = Append(@, [key |-> key, ok |-> ok]),
                  !.pixels[w.imgBuf_].px = IF ok THEN key ELSE <<>>]

\* paintEvent with a fault: the decoded selection is not recorded.
store_raster_no_key(w) == [w EXCEPT !.image_ = [data |-> w.imgBuf_]]

\* image_ = QImage(imgBuf_, ...); current* = the selection
store_raster(w) ==
    [w EXCEPT !.image_ = [data |-> w.imgBuf_],
              !.currentFace_ = w.face_,
              !.currentFrame_ = w.frame_,
              !.currentMip_ = w.mip_]

\* painter.drawImage(center + pos_, image_): reads the memory image_ borrows.
drawImage(w, ub) ==
    IF w.image_.data = NULL THEN [w EXCEPT !.drawn = "null"]
    ELSE IF w.pixels[w.image_.data].st = "free"
         THEN IF ub = "crash" THEN Crash([w EXCEPT !.drawn = "freed"])
              ELSE [w EXCEPT !.drawn = "freed"]
    ELSE IF w.pixels[w.image_.data].px = <<>> THEN [w EXCEPT !.drawn = "garbage"]
    ELSE [w EXCEPT !.drawn = "pixels"]

\* ImageViewWidget::paintEvent; ub is the outcome of dereferencing a null
\* file_, nb the address malloc returns, ok what Convert returns, ubDraw the
\* outcome of drawing from freed memory.
paintEvent(w, ub, nb, ok, ubDraw) ==
    IF w.view_file_ = NULL /\ ub = "crash" THEN Crash(w)
    ELSE IF ~needs_decode(w) THEN drawImage(w, ubDraw)
    ELSE Bind(realloc_imgBuf(w, nb), LAMBDA w1 :
         Bind(Convert(w1, ok), LAMBDA w2 :
            IF ~ok THEN w2
            ELSE Bind(store_raster(w2), LAMBDA w3 : drawImage(w3, ubDraw))))

\* ----------------------------------------------------- ImageSettingsWidget
\* CVTFFile::SetStartFrame / SetFlag on the settings panel's handle
SetStartFrame(w, v) == [w EXCEPT !.heap[w.settings_file_].startFrame = v]
SetFlag(w, f, on) ==
    [w EXCEPT !.heap[w.settings_file_].flags = IF on THEN @ \cup {f} ELSE @ \ {f}]

\* the startFrame_ handler with a fault: fileModified is emitted under the
\* guard too.
startFrameChanged_unguarded(w) ==
    IF w.settings_file_ = NULL THEN w
    ELSE Bind(SetStartFrame(w, w.startFrameSpin.v), LAMBDA w1 : emit_fileModified(w1))

\* the textChanged handler of startFrame_
startFrameChanged(w) ==
    IF w.settings_file_ = NULL THEN w
    ELSE Bind(SetStartFrame(w, w.startFrameSpin.v),
              LAMBDA w1 : IF ~w1.settingFile_ THEN emit_fileModified(w1) ELSE w1)

\* the stateChanged handler of the check box of flag f
flagStateChanged(w, f) ==
    IF w.settings_file_ = NULL THEN w
    ELSE Bind(SetFlag(w, f, w.flagChecks_[f]),
              LAMBDA w1 : IF ~w1.settingFile_ THEN emit_fileModified(w1) ELSE w1)

\* the textChanged handlers with a fault: the frame_ handler reports an edit.
textChanged_frame_modifies(w, box) ==
    CASE box = "frameSpin" ->
             Bind(set_frame(w, w.frameSpin.v),
                  LAMBDA w1 : IF ~w1.settingFile_ THEN emit_fileModified(w1) ELSE w1)
      [] box = "mipSpin" -> set_mip(w, w.mipSpin.v)
      [] box = "faceSpin" -> set_face(w, w.faceSpin.v)
      [] box = "startFrameSpin" -> startFrameChanged(w)

\* the textChanged handlers, by spin box
textChanged(w, box) ==
    CASE box = "frameSpin" -> set_frame(w, w.frameSpin.v)
      [] box = "mipSpin" -> set_mip(w, w.mipSpin.v)
      [] box = "faceSpin" -> set_face(w, w.faceSpin.v)
      [] box = "startFrameSpin" -> startFrameChanged(w)

Bound(lo, hi, v) == Max(lo, Min(hi, v))

\* QSpinBox::setValue: the value is bound to the range; the signal fires when
\* the value changes.
setValue(w, box, v) ==
    LET nv == Bound(w[box].lo, w[box].hi, v)
    IN  IF nv = w[box].v THEN w
        ELSE Bind([w EXCEPT ![box].v = nv], LAMBDA x : textChanged(x, box))

\* QSpinBox::setRange: stores the range and re-bounds the value.
setRange(w, box, lo, hi) ==
    LET nhi == Max(lo, hi)
        nv == Bound(lo, nhi, w[box].v)
        w1 == [w EXCEPT ![box] = [v |-> nv, lo |-> lo, hi |-> nhi]]
    IN  IF nv = w[box].v THEN w1 ELSE Bind(w1, LAMBDA x : textChanged(x, box))

\* QCheckBox::setChecked
setChecked(w, f, on) ==
    IF w.flagChecks_[f] = on THEN w
    ELSE Bind([w EXCEPT !.flagChecks_[f] = on], LAMBDA x : flagStateChanged(x, f))

RECURSIVE SetFlagChecks(_, _, _)
SetFlagChecks(w, flags, f) ==
    IF f > NumFlags THEN w
    ELSE Bind(setChecked(w, f, f \in flags), LAMBDA x : SetFlagChecks(x, flags, f + 1))

\* The statements of ImageSettingsWidget::set_vtf, in order.
set_vtf_statement(w, file, g, i) ==
    CASE i = 1 -> [w EXCEPT !.settingFile_ = TRUE, !.settings_file_ = file]
      [] i = 2 -> setValue(w, "startFrameSpin", Get(w, file, "startFrame", g))
      [] i = 3 -> setValue(w, "mipSpin", 0)
      [] i = 4 -> setValue(w, "frameSpin", Get(w, file, "startFrame", g))
      [] i = 5 -> setValue(w, "faceSpin", 0)
      [] i = 6 -> setRange(w, "mipSpin", 0, Get(w, file, "mips", g))
      [] i = 7 -> setRange(w, "frameSpin", 1, Get(w, file, "frames", g))
      [] i = 8 -> setRange(w, "faceSpin", 1, Get(w, file, "faces", g))
      [] i = 9 -> setRange(w, "startFrameSpin", 1, Get(w, file, "frames", g))
      [] i = 10 -> SetFlagChecks(w, Get(w, file, "flags", g), 1)
      [] i = 11 -> [w EXCEPT !.settingFile_ = FALSE]

RECURSIVE set_vtf_from(_, _, _, _)
set_vtf_from(w, file, g, i) ==
    IF i > 11 THEN w
    ELSE Bind(set_vtf_statement(w, file, g, i),
              LAMBDA x : set_vtf_from(x, file, g, i + 1))

settings_set_vtf(w, file, g) == Bind(w, LAMBDA x : set_vtf_from(x, file, g, 1))

\* ------------------------------------------- ViewerMainWindow: documents
\* emit vtfFileChanged(file): the slots run in connection order, InfoWidget::
\* update_info first; every one of them dereferences file.
emit_vtfFileChanged(w, file, ub, g) ==
    LET w0 == [w EXCEPT !.pubs = Append(@, file)]
    IN  IF file = NULL /\ ub = "crash" THEN Crash(w0)
        ELSE Bind(view_set_vtf(w0, file), LAMBDA x : settings_set_vtf(x, file, g))

\* load_file_ptr with a fault: the document is published twice.
load_file_ptr_emit_twice(w, file, ub, g) ==
    Bind(emit_vtfFileChanged(w, file, ub, g), LAMBDA w0 :
    Bind(emit_vtfFileChanged(w0, file, ub, g), LAMBDA w1 :
        IF w1.status = "crashed" THEN w1
        ELSE [w1 EXCEPT !.file_ = file, !.path_ = EmptyStr, !.ret = TRUE]))

\* load_file(VTFLib::CVTFFile*)
load_file_ptr(w, file, ub, g) ==
    Bind(emit_vtfFileChanged(w, file, ub, g), LAMBDA w1 :
        IF w1.status = "crashed" THEN w1
        ELSE [w1 EXCEPT !.file_ = file, !.path_ = EmptyStr, !.ret = TRUE])

\* load_file(const void*, size_t); parsed is what CVTFFile::Load makes of the
\* bytes: ok and the header.
load_file_buf(w, parsed) ==
    LET h == NewHandle(w.heap)
        w1 == [w EXCEPT !.file_ = h, !.heap[h] = LiveCell(parsed.hdr)]
    IN  IF ~parsed.ok
        THEN [w1 EXCEPT !.heap[h] = FreeCell, !.file_ = NULL, !.ret = FALSE]
        ELSE load_file_ptr(w1, h, "survive", parsed.hdr)

\* load_file(const char*); numRead is what util::read_file returned.
load_file_path(w, path, numRead, parsed) ==
    IF numRead = 0 THEN [w EXCEPT !.ret = FALSE]
    ELSE Bind(load_file_buf(w, parsed), LAMBDA w1 :
             [w1 EXCEPT !.windowTitle = FormatTitle(path), !.path_ = path])

unload_file(w, ub, g) ==
    IF w.file_ = NULL THEN w
    ELSE Bind(emit_vtfFileChanged(w, NULL, ub, g), LAMBDA w1 :
             IF w1.status = "crashed" THEN w1
             ELSE [w1 EXCEPT !.heap[w.file_] = FreeCell, !.file_ = NULL,
                             !.path_ = EmptyStr])

reset_state(w) == [w EXCEPT !.dirty_ = FALSE]

\* ----------------------------------------------- ViewerMainWindow: saving
\* file_->Save(path_): writes the state of the object file_ points to.
CodecSave(w, saved) ==
    [w EXCEPT !.saves = Append(@, [file |-> w.file_, path |-> w.path_, ok |-> saved])]

\* save(); name is what the save-as dialog returns (empty: cancelled), saved is
\* what the codec's Save returns.
save(w0, name, saved, ub) ==
    LET w == [w0 EXCEPT !.saveCalls = @ + 1]
    IN
    IF ~w.dirty_ THEN w
    ELSE LET w1 == [w EXCEPT !.dirty_ = FALSE]
             ask == w1.path_ = EmptyStr
             w2 == IF ask THEN [w1 EXCEPT !.dialogs = Append(@, "saveas")] ELSE w1
         IN  IF ask /\ name = EmptyStr THEN w2
             ELSE LET w3 == CodecSave(IF ask THEN [w2 EXCEPT !.path_ = name] ELSE w2, saved)
                  IN  IF w3.file_ = NULL /\ ub = "crash" THEN Crash(w3)
                      ELSE IF ~saved
                      THEN [w3 EXCEPT !.dialogs = Append(@, "warning")]
                      ELSE [w3 EXCEPT !.windowTitle = RemoveLast(@)]

\* closeEvent(); r is the button of the unsaved-changes box.
closeEvent(w, r, name, saved, ub) ==
    LET accept(x) == IF x.status = "crashed" THEN x ELSE [x EXCEPT !.status = "closed"]
    IN  IF ~w.dirty_ THEN accept(w)
        ELSE LET w1 == [w EXCEPT !.dialogs = Append(@, "unsaved")]
             IN  IF r = "Cancel" THEN [w1 EXCEPT !.ignored = TRUE]
                 ELSE IF r = "Save"
                      THEN Bind(save(w1, name, saved, ub), LAMBDA x : accept(x))
                 ELSE accept(w1)

\* ------------------------------------------------------------------- Init
DefaultSpin == [v |-> 0, lo |-> SpinDefaultMin, hi |-> SpinDefaultMax]

Init ==
    /\ file_ = NULL
    /\ path_ = EmptyStr
    /\ dirty_ = FALSE
    /\ windowTitle = TitleBase
    /\ heap = [h \in Handles |-> FreeCell]
    /\ settings_file_ = NULL
    /\ settingFile_ = FALSE
    /\ frameSpin = DefaultSpin
    /\ mipSpin = DefaultSpin
    /\ faceSpin = DefaultSpin
    /\ startFrameSpin = DefaultSpin
    /\ flagChecks_ = [f \in Flags |-> FALSE]
    /\ view_file_ = NULL
    /\ frame_ = 0
    /\ face_ = 0
    /\ mip_ = 0
    /\ currentFrame_ = 0
    /\ currentFace_ = 0
    /\ currentMip_ = 0
    /\ zoom_ = 1
    /\ pos_ = <<0, 0>>
    /\ imgBuf_ = NULL
    /\ image_ = NullImage
    /\ pixels = [b \in Buffers |-> FreeBuf]
    /\ status = "running"
    /\ lastOp = Record("init", "", W, 0)
    /\ edited = FALSE
    /\ decoded = <<>>

\* ---------------------------------------------------------------- actions
\* What CVTFFile::Load answers: a refusal, or a header.
Parsed == {[ok |-> FALSE, hdr |-> NoHeader]}
              \cup {[ok |-> TRUE, hdr |-> h] : h \in Headers}

\* The codec wrote the current document.
Saved(w) == /\ w.status # "crashed"
            /\ \E i \in 1..Len(w.saves) : w.saves[i].ok /\ w.saves[i].file # NULL

LoadFromPath ==
    /\ status = "running"
    /\ \E path \in LoadPaths, numRead \in {0, 1}, parsed \in Parsed :
          /\ numRead # 0 => CanAlloc(heap)
          /\ numRead = 0 => ~parsed.ok
          /\ \E w \in {load_file_path(W, path, numRead, parsed)} :
                 /\ Commit(w)
                 /\ lastOp' = [Done("load_path",
                                    IF numRead = 0 THEN "unreadable"
                                    ELSE IF parsed.ok THEN "ok" ELSE "rejected", w)
                                  EXCEPT !.hdr = parsed.hdr]
                 /\ edited' = IF w.ret THEN FALSE ELSE edited

LoadFromBuffer ==
    /\ status = "running"
    /\ CanAlloc(heap)
    /\ \E parsed \in Parsed :
          \E w \in {load_file_buf(W, parsed)} :
              /\ Commit(w)
              /\ lastOp' = [Done("load_buf", IF parsed.ok THEN "ok" ELSE "rejected", w)
                               EXCEPT !.hdr = parsed.hdr]
              /\ edited' = IF w.ret THEN FALSE ELSE edited

Unload ==
    /\ status = "running"
    /\ \E ub \in UBOutcomes, g \in Headers :
          /\ (file_ = NULL \/ ub = "crash") => (ub = "crash" /\ g = NoHeader)
          /\ \E w \in {unload_file(W, ub, g)} :
                 /\ Commit(w)
                 /\ lastOp' = Done("unload", IF file_ = NULL THEN "none" ELSE "active", w)
                 /\ UNCHANGED edited

\* The inputs save() does not read are fixed, so that each outcome is drawn once.
SaveInputs(name, saved, ub) ==
    /\ (~dirty_ \/ path_ # EmptyStr) => name = EmptyStr
    /\ (~dirty_ \/ (path_ = EmptyStr /\ name = EmptyStr)) => (saved /\ ub = "crash")
    /\ file_ # NULL => ub = "crash"
    /\ (file_ = NULL /\ ub = "crash") => saved

Save ==
    /\ status = "running"
    /\ \E name \in SaveAsNames, saved \in BOOLEAN, ub \in UBOutcomes :
          /\ SaveInputs(name, saved, ub)
          /\ \E w \in {save(W, name, saved, ub)} :
                 /\ Commit(w)
                 /\ lastOp' = Done("save", IF dirty_ THEN "dirty" ELSE "clean", w)
                 /\ edited' = IF Saved(w) THEN FALSE ELSE edited

CloseButtons == {"Save", "Cancel", "Close"}

RequestClose ==
    /\ status = "running"
    /\ \E r \in CloseButtons, name \in SaveAsNames, saved \in BOOLEAN, ub \in UBOutcomes :
          /\ ~dirty_ => r = "Close"
          /\ IF r = "Save" THEN SaveInputs(name, saved, ub)
             ELSE name = EmptyStr /\ saved /\ ub = "crash"
          /\ \E w \in {closeEvent(W, r, name, saved, ub)} :
                 /\ Commit(w)
                 /\ lastOp' = Done("close", IF dirty_ THEN r ELSE "clean", w)
                 /\ edited' = IF Saved(w) THEN FALSE ELSE edited

\* The user types a new value into a spin box (the box admits its range only).
UserSpin(box, op) ==
    /\ status = "running"
    /\ \E v \in W[box].lo .. Min(W[box].hi, MaxSpin) :
          /\ v # W[box].v
          /\ \E w \in {setValue(W, box, v)} :
                 /\ Commit(w)
                 /\ lastOp' = Done(op, "", w)

UserSetFrame == UserSpin("frameSpin", "frame") /\ UNCHANGED edited
UserSetMip == UserSpin("mipSpin", "mip") /\ UNCHANGED edited
UserSetFace == UserSpin("faceSpin", "face") /\ UNCHANGED edited

UserSetStartFrame ==
    /\ UserSpin("startFrameSpin", "startFrame")
    /\ edited' = (edited \/ settings_file_ # NULL)

UserToggleFlag ==
    /\ status = "running"
    /\ \E f \in Flags :
          \E w \in {setChecked(W, f, ~flagChecks_[f])} :
              /\ Commit(w)
              /\ lastOp' = Done("flag", "", w)
    /\ edited' = (edited \/ settings_file_ # NULL)

\* A paint event of the canvas.
Paint ==
    /\ status = "running"
    /\ \E ub \in UBOutcomes, nb \in Buffers, ok \in BOOLEAN, ubDraw \in UBOutcomes :
          /\ view_file_ # NULL => ub = "crash"
          /\ IF needs_decode(W) THEN pixels[nb].st = "free" \/ nb = imgBuf_
             ELSE nb = 1 /\ ok
          /\ \E w \in {paintEvent(W, ub, nb, ok, ubDraw)} :
                 /\ w.drawn # "freed" => ubDraw = "crash"
                 /\ Commit(w)
                 /\ lastOp' = Done("paint", "", w)
                 /\ UNCHANGED edited

\* The main window and the settings panel.  paintEvent reads and writes the
\* canvas's fields only; its runs are those of SpecCanvas below.
Next ==
    \/ LoadFromPath
    \/ LoadFromBuffer
    \/ Unload
    \/ Save
    \/ RequestClose
    \/ UserSetFrame
    \/ UserSetMip
    \/ UserSetFace
    \/ UserSetStartFrame
    \/ UserToggleFlag

Spec == Init /\ [][Next]_vars

\* The canvas with the operations that reach it: the loads and the unload
\* (ImageViewWidget::set_vtf), the selection edits and the paint events.
NextCanvas ==
    \/ LoadFromBuffer
    \/ Unload
    \/ UserSetFrame
    \/ UserSetMip
    \/ UserSetFace
    \/ Paint

SpecCanvas == Init /\ [][NextCanvas]_vars

\* ================================================================= claims
Loads == {"load_path", "load_buf"}
LoadSucceeded(op) == op.op \in Loads /\ op.ret
\* save() ran from a dirty state and the codec's Save returned success
SaveSucceeded(op) == /\ Len(op.saves) = 1
                     /\ op.saves[1].ok
                     /\ op.saves[1].file # NULL
UndirtiedTitles == {TitleBase} \cup {FormatTitle(p) : p \in LoadPaths}

\* C1: the dirty bit is true exactly when a user flag toggle or startFrame
\* change happened since the last successful save or successful load.
C1_DirtyIffEdited == dirty_ <=> edited

\* C2: a save() called while dirty that is cancelled at the save-as prompt or
\* whose codec save fails returns with the dirty bit still true.
C2_FailedSaveKeepsDirty ==
    (lastOp.op = "save" /\ lastOp.arg = "dirty" /\ status = "running"
        /\ ~SaveSucceeded(lastOp)) => dirty_

\* C3: the window title ends in "*" exactly when the dirty bit is true.
C3_TitleTracksDirty == EndsWithStar(windowTitle) <=> dirty_

\* C4: a loadFromBuffer that the codec rejects returns false and leaves the
\* controller's handle (still live), the path and the dirty bit as they were.
C4_RejectedBufferLoadKeepsState ==
    [][(lastOp'.op = "load_buf" /\ lastOp'.arg = "rejected") =>
          /\ ~lastOp'.ret
          /\ file_' = file_
          /\ (file_ # NULL => heap'[file_].st = "live")
          /\ path_' = path_
          /\ dirty_' = dirty_]_vars

\* C5: a loadFromPath that returns false leaves the recorded path and the
\* window title as they were.
C5_FailedPathLoadKeepsPathAndTitle ==
    [][(lastOp'.op = "load_path" /\ ~lastOp'.ret) =>
          (path_' = path_ /\ windowTitle' = windowTitle)]_vars

\* C6: from a dirty state, a save() whose codec save succeeds hands the codec
\* the recorded path, clears dirty and leaves the un-dirtied title: only a
\* trailing "*" is removed from the title.
C6_SuccessfulSave ==
    [][(lastOp'.op = "save" /\ dirty_ /\ SaveSucceeded(lastOp') /\ status' = "running") =>
          /\ ~dirty_'
          /\ (path_ # EmptyStr => lastOp'.saves[1].path = path_)
          /\ path_' = lastOp'.saves[1].path
          /\ windowTitle' \in UndirtiedTitles
          /\ windowTitle' = IF EndsWithStar(windowTitle) THEN RemoveLast(windowTitle)
                            ELSE windowTitle]_vars

\* C7: requestClose: not dirty, the close proceeds with no prompt; dirty, the
\* user is asked: Cancel aborts and leaves dirty, path and document unchanged,
\* Discard proceeds without a codec save, Save calls save() and then proceeds.
C7_CloseProtocol ==
    [][lastOp'.op = "close" =>
          /\ ~dirty_ => (lastOp'.dialogs = <<>> /\ status' = "closed")
          /\ dirty_ => (lastOp'.dialogs # <<>> /\ Head(lastOp'.dialogs) = "unsaved")
          /\ (dirty_ /\ lastOp'.arg = "Cancel") =>
                /\ status' = "running" /\ lastOp'.ignored
                /\ dirty_' = dirty_ /\ path_' = path_ /\ file_' = file_ /\ heap' = heap
                /\ lastOp'.saveCalls = 0
          /\ (dirty_ /\ lastOp'.arg = "Close") =>
                (lastOp'.saves = <<>> /\ lastOp'.saveCalls = 0 /\ status' = "closed")
          /\ (dirty_ /\ lastOp'.arg = "Save") =>
                (lastOp'.saveCalls = 1 /\ status' = "closed")]_vars

\* C8: after every successful load the selection is (the new document's start
\* frame, 1, 0), the zoom is 1.0 and the pan is (0, 0).
C8_SelectionResetOnLoad ==
    LoadSucceeded(lastOp) =>
        /\ frame_ = heap[file_].startFrame
        /\ face_ = 1
        /\ mip_ = 0
        /\ zoom_ = 1
        /\ pos_ = <<0, 0>>

\* C9: in every state the handle the settings panel writes flag and startFrame
\* edits to is the handle save() hands to the codec.
C9_SaveSeesEdits == settings_file_ = file_

\* C10: a successful load publishes documentChanged(vtf) exactly once, an
\* unload of an active document publishes documentChanged(null) exactly once,
\* and no other operation publishes.
C10_SingleBroadcast ==
    /\ LoadSucceeded(lastOp) => (file_ # NULL /\ lastOp.pubs = <<file_>>)
    /\ (lastOp.op = "unload" /\ lastOp.arg = "active") => lastOp.pubs = <<NULL>>
    /\ ~(LoadSucceeded(lastOp) \/ (lastOp.op = "unload" /\ lastOp.arg = "active"))
          => lastOp.pubs = <<>>

\* C10 witness: a document that a load published has been unloaded, and the
\* unload published null once.
C10_Witness ==
    /\ lastOp.op = "unload" /\ lastOp.arg = "active"
    /\ lastOp.pubs = <<NULL>>

\* C11: after unload() of an active document the program runs on with null
\* published once and taken by the canvas and the settings panel, the handle
\* released and null, the path empty and the dirty bit false.
C11_UnloadClearsDocument ==
    [][(lastOp'.op = "unload" /\ lastOp'.arg = "active") =>
          /\ status' = "running"
          /\ lastOp'.pubs = <<NULL>>
          /\ view_file_' = NULL /\ settings_file_' = NULL
          /\ file_' = NULL /\ heap'[file_].st = "free"
          /\ path_' = EmptyStr
          /\ ~dirty_']_vars

\* The title ends in one "*", not in two.
OneTrailingStar(s) == EndsWithStar(s) /\ ~EndsWithStar(RemoveLast(s))

\* C12: mark_modified is idempotent on the title: after every call the dirty
\* bit is true and the title ends in exactly one "*", and a call that follows
\* another call directly leaves the dirty bit and the title as the first left
\* them.
C12_MarkModifiedIdempotent ==
    [][lastOp'.marks > 0 =>
          /\ dirty_'
          /\ OneTrailingStar(windowTitle')
          /\ lastOp'.marks > 1 => (windowTitle' = windowTitle /\ dirty_' = dirty_)]_vars

\* C12 witness: mark_modified has run MaxMarks times in a row.
C12_Witness ==
    /\ lastOp.marks = MaxMarks
    /\ dirty_
    /\ OneTrailingStar(windowTitle)

\* C13: in every state, dirty implies that the controller's handle is not
\* null.
C13_DirtyImpliesHandle == dirty_ => file_ # NULL

\* ---------------------------------------------------------- canvas claims
Selection == <<view_file_, frame_, face_, mip_>>
\* The paint called Convert and it returned false / true.
ConvertFailed(op) == op.op = "paint" /\ op.converts # <<>> /\ ~op.converts[1].ok
ConvertSucceeded(op) == op.op = "paint" /\ op.converts # <<>> /\ op.converts[1].ok

\* C14: in every state the buffer the raster image_ refers to is live, also
\* after a paint whose conversion failed, and a paint that draws the raster
\* reads live memory.
C14_RasterBufferLive ==
    /\ image_.data # NULL => pixels[image_.data].st = "live"
    /\ lastOp.op = "paint" => lastOp.drawn # "freed"

\* C15: a paint of a document calls Convert zero times when the document and
\* the selection are those of the last successful conversion, and exactly once
\* otherwise.
C15_CacheCoherence ==
    [][(lastOp'.op = "paint" /\ view_file_ # NULL) =>
          Len(lastOp'.converts) = IF decoded = Selection THEN 0 ELSE 1]_vars

\* C15 witness: a paint that drew the raster of an earlier successful
\* conversion of the same document and selection, without calling Convert.
C15_Witness ==
    /\ lastOp.op = "paint"
    /\ lastOp.converts = <<>>
    /\ view_file_ # NULL
    /\ decoded = Selection
    /\ lastOp.drawn = "pixels"

\* C16: a paint of a document whose Convert returns false does not end the
\* program and leaves the cache key, the raster and the raster's pixels as they
\* were; a paint whose Convert returns true leaves the cache key at the
\* selection and a raster holding the pixels of exactly that selection.
C16_DecodeFailureKeepsRaster ==
    [][/\ (ConvertFailed(lastOp') /\ view_file_ # NULL) =>
             /\ status' = "running"
             /\ <<currentFrame_', currentFace_', currentMip_'>>
                    = <<currentFrame_, currentFace_, currentMip_>>
             /\ image_' = image_
             /\ image_.data # NULL => pixels'[image_.data] = pixels[image_.data]
       /\ (ConvertSucceeded(lastOp') /\ view_file_ # NULL) =>
             /\ <<currentFrame_', currentFace_', currentMip_'>> = <<frame_, face_, mip_>>
             /\ image_'.data # NULL
             /\ pixels'[image_'.data] = [st |-> "live", px |-> Selection]]_vars

\* -------------------------------------------------- settings panel claims
\* C17: an operation that publishes a document emits no fileModified, from the
\* publication to the end of the settings panel's synchronisation, so a load
\* neither sets the dirty bit nor adds "*" to the title.
C17_LoadingGuard ==
    [][lastOp'.pubs # <<>> =>
          /\ lastOp'.mods = 0
          /\ dirty_' => dirty_
          /\ EndsWithStar(windowTitle') => EndsWithStar(windowTitle)]_vars

\* C17 witness: a load during whose synchronisation the startFrame handler
\* wrote to the document under the guard, and nothing was emitted.
C17_Witness ==
    /\ LoadSucceeded(lastOp)
    /\ heap[file_].startFrame # lastOp.hdr.startFrame
    /\ lastOp.mods = 0
    /\ ~dirty_

SelectionEdits == {"frame", "mip", "face"}

\* C18: a frame, mip or face edit changes the edited spin box and the canvas's
\* pending value of that one coordinate, and nothing else: the dirty bit, the
\* title, the path, the documents (flags, start frame) and the rest of the
\* canvas are unchanged and no fileModified is emitted.
C18_SelectionEditsArePure ==
    [][lastOp'.op \in SelectionEdits =>
          /\ lastOp'.mods = 0
          /\ UNCHANGED <<dirty_, windowTitle, path_, file_, heap, settings_file_,
                         startFrameSpin, flagChecks_, view_file_, currentFrame_,
                         currentFace_, currentMip_, zoom_, pos_, imgBuf_, image_,
                         pixels, status>>
          /\ frame_' = IF lastOp'.op = "frame" THEN frameSpin'.v ELSE frame_
          /\ mip_' = IF lastOp'.op = "mip" THEN mipSpin'.v ELSE mip_
          /\ face_' = IF lastOp'.op = "face" THEN faceSpin'.v ELSE face_
          /\ lastOp'.op # "frame" => frameSpin' = frameSpin
          /\ lastOp'.op # "mip" => mipSpin' = mipSpin
          /\ lastOp'.op # "face" => faceSpin' = faceSpin]_vars

\* C18 witness: the user has set the frame of a loaded, dirty document to 2.
C18_Witness ==
    /\ lastOp.op = "frame"
    /\ file_ # NULL /\ settings_file_ = file_
    /\ dirty_
    /\ frame_ = 2

\* C19: after a successful load and the settings panel's synchronisation, the
\* loaded document's start frame and flags are those the codec parsed.
C19_LoadIsReadOnly ==
    LoadSucceeded(lastOp) =>
        /\ heap[file_].startFrame = lastOp.hdr.startFrame
        /\ heap[file_].flags = lastOp.hdr.flags

\* C20: when the user answers Save to the unsaved-changes box, the close
\* proceeds only if the codec saved the document: a cancelled save-as prompt or
\* a failed codec save keeps the window open.
C20_CloseAfterSaveOnlyIfSaved ==
    [][(lastOp'.op = "close" /\ lastOp'.arg = "Save" /\ status' = "closed") =>
          SaveSucceeded(lastOp')]_vars

====
